---- MODULE Spec2Model ----
(***************************************************************************)
(* State-machine model of the stargazers extract-and-load engine           *)
(* (src/extract_load/github_extract_load.py).  One process is one Python   *)
(* interpreter; its position (pc) is a suspension point of the code: an    *)
(* HTTP request, a time.sleep, a DuckDB / dlt call, or the line after a    *)
(* call has returned.  The upstream API and the errors raised by the       *)
(* destination store are the environment: their answers are drawn from     *)
(* small sets.                                                             *)
(***************************************************************************)
EXTENDS Integers, Sequences, FiniteSets, TLC

VARIABLES
    store,          \* DuckDB file: table name -> rows (<<>> = table absent or empty)
    pc,             \* per process: position in the code
    mode,           \* per process: what was called ("run" = run_extract_load, "single" =
                    \* extract_and_load_repo, "fetch" = get_stargazers, "load" = load_with_dlt)
    idx,            \* per process: index into REPOS of the for loop of run_extract_load
    repo,           \* per process: the `repo` argument
    upstream,       \* per process: number of non-empty pages the API holds for `repo`
    page,           \* per process: the `page` argument of _fetch_page
    first_records,  \* per process: get_stargazers' first_records ("unset" before page 1 returns)
    last_page,      \* per process: get_stargazers' last_page (0 before the probe)
    stargazers,     \* per process: get_stargazers' accumulator, then its return value
    records,        \* per process: the `records` argument of load_with_dlt
    attempt,        \* per process: load_with_dlt's loop variable (0-based)
    wait,           \* per process: seconds of the sleep in progress (0 when not sleeping)
    clock,          \* per process: [now, reset] read while computing the rate-limit sleep
    err,            \* per process (history): kind of the exception last caught or propagated
    seen,           \* per process (history): classes of non-200 responses of this fetch
    asked,          \* per process (history): [top |-> highest page requested, probe |-> probe sent,
                    \*   last |-> last page named by the probe's Link header (0 = none named),
                    \*   cap |-> page whose request was answered 422 (0 = none)]
    got,            \* per process (history): the [page, recs] _fetch_page returned, in order of completion
    prev            \* per process (history): the load call that returned just before this one

vars == <<store, pc, mode, idx, repo, upstream, page, first_records, last_page,
          stargazers, records, attempt, wait, clock, err, seen, asked, got, prev>>

fetchVars == <<upstream, page, first_records, last_page, stargazers, clock, seen, asked, got>>
loadVars  == <<records, attempt, prev>>

----------------------------------------------------------------------------
(* Bounds of the model *)

PageLen == 2        \* records on a full page (stands for per_page = 100)
MaxDataPages == 2   \* the upstream holds 0..MaxDataPages non-empty pages per source
Epoch == 1000       \* a reading of time.time(), in seconds
MaxContention == 2  \* lock retries followed per call when two processes run side by side

(* Program constants *)

MAX_PAGES == 400
max_retries == 12

\* The Python processes: the one of a full run (or of a single call under
\* study), and two more started side by side by a scheduler.
Main == {"main"}
Tasks == {"task_a", "task_b"}
Procs == Main \cup Tasks

REPOS == << "dbt-labs/dbt-core", "apache/airflow", "dagster-io/dagster",
            "duckdb/duckdb", "dlt-hub/dlt" >>

RepoSet == {REPOS[i] : i \in 1..Len(REPOS)}

\* REPO_TABLE_MAP with two sources sharing one table
REPO_TABLE_MAP_Shared(r) ==
    CASE r = "dbt-labs/dbt-core"  -> "raw_dbt_core"
      [] r = "apache/airflow"     -> "raw_airflow"
      [] r = "dagster-io/dagster" -> "raw_dagster"
      [] r = "duckdb/duckdb"      -> "raw_duckdb"
      [] r = "dlt-hub/dlt"        -> "raw_duckdb"

REPO_TABLE_MAP(r) ==
    CASE r = "dbt-labs/dbt-core"  -> "raw_dbt_core"
      [] r = "apache/airflow"     -> "raw_airflow"
      [] r = "dagster-io/dagster" -> "raw_dagster"
      [] r = "duckdb/duckdb"      -> "raw_duckdb"
      [] r = "dlt-hub/dlt"        -> "raw_dlt"

Tables == {REPO_TABLE_MAP(r) : r \in RepoSet}

----------------------------------------------------------------------------
(* Sequences *)

Max(a, b) == IF a >= b THEN a ELSE b
Min(a, b) == IF a <= b THEN a ELSE b

Prefix(s, n) == SubSeq(s, 1, n)

Contains(s, sub) ==
    \E i \in 1..(Len(s) - Len(sub) + 1) : SubSeq(s, i, i + Len(sub) - 1) = sub

Upper == <<"A","B","C","D","E","F","G","H","I","J","K","L","M",
           "N","O","P","Q","R","S","T","U","V","W","X","Y","Z">>
LowerOf == <<"a","b","c","d","e","f","g","h","i","j","k","l","m",
             "n","o","p","q","r","s","t","u","v","w","x","y","z">>

\* str.lower(), character by character
Lower(s) ==
    [i \in 1..Len(s) |->
        IF \E k \in 1..26 : Upper[k] = s[i]
        THEN LowerOf[CHOOSE k \in 1..26 : Upper[k] = s[i]]
        ELSE s[i]]

----------------------------------------------------------------------------
(* The upstream API *)

\* One stargazer item of a source: the n-th user who starred it.
Item(r, n) == [user_id |-> n]

\* The items the API serves for page pg of source r holding `pages` non-empty pages.
PageItems(r, pg, pages) ==
    IF pg <= pages
    THEN [i \in 1..PageLen |-> Item(r, (pg - 1) * PageLen + i)]
    ELSE <<>>

\* The Link header the API sends with a successful listing response: it names
\* the last page when there is more than one page, and is absent otherwise.
LinkHeader(pages) ==
    IF pages > 1
    THEN << [page |-> 2, rel |-> "next"], [page |-> pages, rel |-> "last"] >>
    ELSE <<>>

\* The page a Link header names as last (0 when it names none)
NamedLast(link_header) ==
    IF \E i \in 1..Len(link_header) : link_header[i].rel = "last"
    THEN link_header[CHOOSE i \in 1..Len(link_header) : link_header[i].rel = "last"].page
    ELSE 0

Statuses == {200, 403, 404, 422, 429, 500}

\* X-RateLimit-Reset of a rate-limit response, relative to the reading `now`
ResetHeaders(now) == {<<>>, <<now - 10>>, <<now>>, <<now + 30>>}

----------------------------------------------------------------------------
(* Errors raised by DuckDB / dlt: e.kind is what went wrong (lock contention *)
(* or something else), str(e) is e.msg, a sequence of characters           *)

NoErr == "none"
HttpErr == "http"

LockErrs ==
    { [kind |-> "lock",
       msg |-> <<"C","o","u","l","d"," ","n","o","t"," ","s","e","t"," ",
                 "l","o","c","k"," ","o","n"," ","f","i","l","e">>],
      [kind |-> "lock",
       msg |-> <<"C","o","n","f","l","i","c","t","i","n","g"," ",
                 "L","o","c","k"," ","i","s"," ","h","e","l","d">>] }

OtherErrs ==
    { [kind |-> "other",
       msg |-> <<"O","u","t"," ","o","f"," ","M","e","m","o","r","y"," ",
                 "E","r","r","o","r">>] }

StoreErrs == LockErrs \cup OtherErrs

----------------------------------------------------------------------------
(* Pure parts of the code *)

\* line 74 defaulting to 2 when no link is marked rel="last"
parse_last_page_DefaultTwo(link_header) ==
    IF \E i \in 1..Len(link_header) : link_header[i].rel = "last"
    THEN link_header[CHOOSE i \in 1..Len(link_header) : link_header[i].rel = "last"].page
    ELSE 2

\* _parse_last_page: the page of the rel="last" link, 1 when there is none
parse_last_page(link_header) ==
    IF \E i \in 1..Len(link_header) : link_header[i].rel = "last"
    THEN link_header[CHOOSE i \in 1..Len(link_header) : link_header[i].rel = "last"].page
    ELSE 1

\* lines 91-92 left out: 422 reaches raise_for_status
FetchOutcome_CapRaises(status) ==
    IF status \in {403, 429} THEN "retry"
    ELSE IF status >= 400 THEN "raise"
    ELSE "ok"

\* _fetch_page, lines 83-94: what a response status leads to
FetchOutcome(status) ==
    IF status \in {403, 429} THEN "retry"
    ELSE IF status = 422 THEN "capped"
    ELSE IF status >= 400 THEN "raise"
    ELSE "ok"

\* _fetch_page, line 84
reset_ts(header, now) == IF header = <<>> THEN now + 60 ELSE header[1]

\* line 85 without the safety buffer
wait_secs_NoBuffer(reset, now) == Max(reset - now, 0)

\* _fetch_page, line 85
wait_secs(reset, now) == Max(reset - now, 0) + 5

\* _fetch_page, lines 98-110: one record per item, in the order of the payload
ToRecords(items, r) ==
    [i \in 1..Len(items) |-> [user_id |-> items[i].user_id, repo |-> r]]

\* line 127 without the min(..., MAX_PAGES)
DiscoverLastPage_NoCap(link_header) == parse_last_page(link_header)

\* get_stargazers, line 127
DiscoverLastPage(link_header) == Min(parse_last_page(link_header), MAX_PAGES)

\* line 135 inserting the page in front of the accumulator
Extend_Prepend(acc, recs) == recs \o acc

\* get_stargazers, line 135
Extend(acc, recs) == acc \o recs

\* line 181 testing str(e) without lower()
Retryable_CaseSensitive(att, e) == att < max_retries - 1 /\ Contains(e.msg, <<"l","o","c","k">>)

\* load_with_dlt, line 181: is the exception retried?
Retryable(att, e) == att < max_retries - 1 /\ Contains(Lower(e.msg), <<"l","o","c","k">>)

\* load_with_dlt, line 182
Backoff(att) == 5 * (att + 1)

\* line 165 left out: the table is kept
DropTable_Skip(st, r) == st

\* line 165 dropping every table of the file
DropTable_All(st, r) == [t \in Tables |-> <<>>]

\* load_with_dlt, line 165: DROP TABLE IF EXISTS table_name
DropTable(st, r) == [st EXCEPT ![REPO_TABLE_MAP(r)] = <<>>]

\* lines 173-177 loading the records twice
AppendRows_Twice(st, r, rows) == [st EXCEPT ![REPO_TABLE_MAP(r)] = @ \o rows \o rows]

\* load_with_dlt, lines 173-177: pipeline.run appends rows to the table
AppendRows(st, r, rows) == [st EXCEPT ![REPO_TABLE_MAP(r)] = @ \o rows]

----------------------------------------------------------------------------
(* Initial state *)

\* Rows left in a table by an earlier day's load of source r: a user who has
\* since un-starred, and the first user stored twice by a half-finished load.
StaleRows(r) ==
    << [user_id |-> 0, repo |-> r], [user_id |-> 1, repo |-> r], [user_id |-> 1, repo |-> r] >>

InitStores ==
    { [t \in Tables |-> StaleRows(CHOOSE r \in RepoSet : REPO_TABLE_MAP(r) = t)] }

\* first_records before _fetch_page(session, repo, 1) has returned
Unset == << [user_id |-> -1, repo |-> ""] >>

NoClock == [now |-> 0, reset |-> 0]
NoAsked == [top |-> 0, probe |-> FALSE, last |-> 0, cap |-> 0]
NoPrev == [repo |-> "", records |-> <<>>, rows |-> <<>>]

Init ==
    /\ store \in InitStores
    /\ pc = [p \in Procs |-> "idle"]
    /\ mode = [p \in Procs |-> "none"]
    /\ idx = [p \in Procs |-> 0]
    /\ repo = [p \in Procs |-> ""]
    /\ upstream = [p \in Procs |-> 0]
    /\ page = [p \in Procs |-> 0]
    /\ first_records = [p \in Procs |-> Unset]
    /\ last_page = [p \in Procs |-> 0]
    /\ stargazers = [p \in Procs |-> <<>>]
    /\ records = [p \in Procs |-> <<>>]
    /\ attempt = [p \in Procs |-> 0]
    /\ wait = [p \in Procs |-> 0]
    /\ clock = [p \in Procs |-> NoClock]
    /\ err = [p \in Procs |-> NoErr]
    /\ seen = [p \in Procs |-> {}]
    /\ asked = [p \in Procs |-> NoAsked]
    /\ got = [p \in Procs |-> <<>>]
    /\ prev = [p \in Procs |-> NoPrev]

----------------------------------------------------------------------------
(* get_stargazers and _fetch_page *)

\* extract_and_load_repo(r) is entered: get_stargazers builds the session and
\* _fetch_page(session, r, 1) is about to send its request (lines 192, 116-118, 81).
BeginFetch(p, r, pages) ==
    /\ repo' = [repo EXCEPT ![p] = r]
    /\ upstream' = [upstream EXCEPT ![p] = pages]
    /\ page' = [page EXCEPT ![p] = 1]
    /\ first_records' = [first_records EXCEPT ![p] = Unset]
    /\ last_page' = [last_page EXCEPT ![p] = 0]
    /\ stargazers' = [stargazers EXCEPT ![p] = <<>>]
    /\ records' = [records EXCEPT ![p] = <<>>]
    /\ attempt' = [attempt EXCEPT ![p] = 0]
    /\ seen' = [seen EXCEPT ![p] = {}]
    /\ asked' = [asked EXCEPT ![p] = NoAsked]
    /\ got' = [got EXCEPT ![p] = <<>>]
    /\ pc' = [pc EXCEPT ![p] = "fetch"]

\* The request of line 81 for page[p] has been sent and answered with status.
Requested(p, status) ==
    asked' = [asked EXCEPT ![p].top = Max(@, page[p]),
                           ![p].cap = IF status = 422 THEN page[p] ELSE @]

\* lines 119-120 left out: an empty page 1 goes on to the probe
FetchPageReturns_NoShortCircuit(p, recs) ==
    /\ got' = [got EXCEPT ![p] = Append(@, [page |-> page[p], recs |-> recs])]
    /\ IF page[p] = 1
       THEN /\ first_records' = [first_records EXCEPT ![p] = recs]
            /\ pc' = [pc EXCEPT ![p] = "probe"]
            /\ UNCHANGED <<page, stargazers>>
       ELSE /\ stargazers' = [stargazers EXCEPT ![p] = IF recs = <<>> THEN @ ELSE @ \o recs]
            /\ IF recs = <<>> \/ page[p] = last_page[p]
               THEN /\ pc' = [pc EXCEPT ![p] = "fetched"]
                    /\ UNCHANGED page
               ELSE /\ pc' = [pc EXCEPT ![p] = "fetch"]
                    /\ page' = [page EXCEPT ![p] = @ + 1]
            /\ UNCHANGED first_records

\* _fetch_page returns (page, recs) to get_stargazers, which goes on to its
\* next suspension point (lines 118-120 for page 1, lines 132-139 otherwise).
FetchPageReturns(p, recs) ==
    /\ got' = [got EXCEPT ![p] = Append(@, [page |-> page[p], recs |-> recs])]
    /\ IF page[p] = 1
       THEN /\ first_records' = [first_records EXCEPT ![p] = recs]
            /\ pc' = [pc EXCEPT ![p] = IF recs = <<>> THEN "fetched" ELSE "probe"]
            /\ UNCHANGED <<page, stargazers>>
       ELSE /\ stargazers' = [stargazers EXCEPT ![p] = IF recs = <<>> THEN @ ELSE Extend(@, recs)]
            /\ IF recs = <<>> \/ page[p] = last_page[p]
               THEN /\ pc' = [pc EXCEPT ![p] = "fetched"]
                    /\ UNCHANGED page
               ELSE /\ pc' = [pc EXCEPT ![p] = "fetch"]
                    /\ page' = [page EXCEPT ![p] = @ + 1]
            /\ UNCHANGED first_records

\* Lines 81-88: a rate-limit response; the wait is computed and the sleep begins.
FetchPageRateLimited(p) ==
    /\ pc[p] = "fetch"
    /\ \E status \in Statuses, header \in ResetHeaders(Epoch) :
         /\ FetchOutcome(status) = "retry"
         /\ clock' = [clock EXCEPT ![p] = [now |-> Epoch, reset |-> reset_ts(header, Epoch)]]
         /\ wait' = [wait EXCEPT ![p] = wait_secs(reset_ts(header, Epoch), Epoch)]
         /\ Requested(p, status)
    /\ pc' = [pc EXCEPT ![p] = "fetch_sleep"]
    /\ seen' = [seen EXCEPT ![p] = @ \cup {"ratelimit"}]
    /\ UNCHANGED <<store, mode, idx, repo, upstream, page, first_records, last_page,
                   stargazers, records, attempt, err, prev, got>>

\* Lines 87-88, 81: the sleep ends and the loop sends the request again.
FetchPageWake(p) ==
    /\ pc[p] = "fetch_sleep"
    /\ pc' = [pc EXCEPT ![p] = "fetch"]
    /\ wait' = [wait EXCEPT ![p] = 0]
    /\ clock' = [clock EXCEPT ![p] = NoClock]
    /\ UNCHANGED <<store, mode, idx, repo, upstream, page, first_records, last_page,
                   stargazers, records, attempt, err, seen, asked, prev, got>>

\* Lines 81, 91-92: the hard-cap status; _fetch_page returns (page, []).
FetchPageCapped(p) ==
    /\ pc[p] = "fetch"
    /\ \E status \in Statuses : FetchOutcome(status) = "capped" /\ Requested(p, status)
    /\ seen' = [seen EXCEPT ![p] = @ \cup {"cap"}]
    /\ FetchPageReturns(p, <<>>)
    /\ UNCHANGED <<store, mode, idx, repo, upstream, last_page, records, attempt,
                   wait, clock, err, prev>>

\* Lines 81, 94: raise_for_status raises; nothing up the stack catches it.
FetchPageError(p) ==
    /\ pc[p] = "fetch"
    /\ \E status \in Statuses : FetchOutcome(status) = "raise" /\ Requested(p, status)
    /\ seen' = [seen EXCEPT ![p] = @ \cup {"error"}]
    /\ err' = [err EXCEPT ![p] = HttpErr]
    /\ pc' = [pc EXCEPT ![p] = "failed"]
    /\ UNCHANGED <<store, mode, idx, repo, upstream, page, first_records, last_page,
                   stargazers, records, attempt, wait, clock, prev, got>>

\* Lines 81, 94-111: a successful response; the page's records are returned.
FetchPageOk(p) ==
    /\ pc[p] = "fetch"
    /\ \E status \in Statuses : FetchOutcome(status) = "ok" /\ Requested(p, status)
    /\ FetchPageReturns(p, ToRecords(PageItems(repo[p], page[p], upstream[p]), repo[p]))
    /\ UNCHANGED <<store, mode, idx, repo, upstream, last_page, records, attempt,
                   wait, clock, err, seen, prev>>

\* The class of a response status, as recorded in `seen`
StatusClass(status) ==
    IF status \in {403, 429} THEN {"ratelimit"}
    ELSE IF status = 422 THEN {"cap"}
    ELSE IF status >= 400 THEN {"error"}
    ELSE {}

\* Lines 122-131: the probe request, sent with session.get directly; whatever
\* the status, only the Link header of the response is read.
Probe(p) ==
    /\ pc[p] = "probe"
    /\ \E status \in Statuses :
         LET link == IF status = 200 THEN LinkHeader(upstream[p]) ELSE <<>>
             last == DiscoverLastPage(link)
         IN  /\ last_page' = [last_page EXCEPT ![p] = last]
             /\ seen' = [seen EXCEPT ![p] = @ \cup StatusClass(status)]
             /\ IF last >= 2
                THEN /\ page' = [page EXCEPT ![p] = 2]
                     /\ pc' = [pc EXCEPT ![p] = "fetch"]
                ELSE /\ pc' = [pc EXCEPT ![p] = "fetched"]
                     /\ UNCHANGED page
             /\ asked' = [asked EXCEPT ![p].probe = TRUE, ![p].last = NamedLast(link)]
    /\ stargazers' = [stargazers EXCEPT ![p] = first_records[p]]
    /\ UNCHANGED <<store, mode, idx, repo, upstream, first_records, records, attempt,
                   wait, clock, err, prev, got>>

----------------------------------------------------------------------------
(* load_with_dlt *)

\* Lines 148-160: the call; the pipeline directory is removed and the first
\* attempt is about to connect.  get_stargazers' frame is gone.
BeginLoad(p, r, recs) ==
    /\ repo' = [repo EXCEPT ![p] = r]
    /\ records' = [records EXCEPT ![p] = recs]
    /\ attempt' = [attempt EXCEPT ![p] = 0]
    /\ err' = [err EXCEPT ![p] = NoErr]
    /\ pc' = [pc EXCEPT ![p] = "load_drop"]
    /\ upstream' = [upstream EXCEPT ![p] = 0]
    /\ page' = [page EXCEPT ![p] = 0]
    /\ first_records' = [first_records EXCEPT ![p] = Unset]
    /\ last_page' = [last_page EXCEPT ![p] = 0]
    /\ stargazers' = [stargazers EXCEPT ![p] = <<>>]
    /\ seen' = [seen EXCEPT ![p] = {}]
    /\ asked' = [asked EXCEPT ![p] = NoAsked]
    /\ got' = [got EXCEPT ![p] = <<>>]

\* Lines 180-186: the except clause, for exception e of attempt[p]
Handle(p, e) ==
    /\ err' = [err EXCEPT ![p] = e.kind]
    /\ IF Retryable(attempt[p], e)
       THEN /\ wait' = [wait EXCEPT ![p] = Backoff(attempt[p])]
            /\ pc' = [pc EXCEPT ![p] = "load_sleep"]
       ELSE /\ pc' = [pc EXCEPT ![p] = "failed"]
            /\ UNCHANGED wait

\* Lines 164-166: connect, DROP TABLE IF EXISTS, close.
LoadDropOk(p) ==
    /\ pc[p] = "load_drop"
    /\ store' = DropTable(store, repo[p])
    /\ pc' = [pc EXCEPT ![p] = "load_run"]
    /\ UNCHANGED <<mode, idx, repo, fetchVars, loadVars, wait, err>>

\* Lines 164-166 raise (the file is locked by another process, or another
\* error) before anything is dropped.
LoadDropRaise(p) ==
    /\ pc[p] = "load_drop"
    /\ \E e \in StoreErrs : Handle(p, e)
    /\ UNCHANGED <<store, mode, idx, repo, fetchVars, loadVars>>

\* Lines 168-179: pipeline.run loads the records and load_with_dlt returns.
LoadRunOk(p) ==
    /\ pc[p] = "load_run"
    /\ store' = AppendRows(store, repo[p], records[p])
    /\ pc' = [pc EXCEPT ![p] = "loaded"]
    /\ UNCHANGED <<mode, idx, repo, fetchVars, loadVars, wait, err>>

\* Lines 168-177 raise; the rows dlt had written by then (none, the first one,
\* or all of them) stay in the table.
LoadRunRaise(p) ==
    /\ pc[p] = "load_run"
    /\ \E e \in StoreErrs, n \in {0, Min(1, Len(records[p])), Len(records[p])} :
         /\ store' = AppendRows(store, repo[p], Prefix(records[p], n))
         /\ Handle(p, e)
    /\ UNCHANGED <<mode, idx, repo, fetchVars, loadVars>>

\* the loop of line 160 without its counter: every retry is attempt 0 again
LoadWake_NoCount(p) ==
    /\ pc[p] = "load_sleep"
    /\ attempt' = [attempt EXCEPT ![p] = 0]
    /\ wait' = [wait EXCEPT ![p] = 0]
    /\ err' = [err EXCEPT ![p] = NoErr]
    /\ pc' = [pc EXCEPT ![p] = "load_drop"]
    /\ UNCHANGED <<store, mode, idx, repo, fetchVars, records, prev>>

\* Lines 184, 160: the back-off sleep ends and the next attempt begins.
LoadWake(p) ==
    /\ pc[p] = "load_sleep"
    /\ attempt' = [attempt EXCEPT ![p] = @ + 1]
    /\ wait' = [wait EXCEPT ![p] = 0]
    /\ err' = [err EXCEPT ![p] = NoErr]
    /\ pc' = [pc EXCEPT ![p] = "load_drop"]
    /\ UNCHANGED <<store, mode, idx, repo, fetchVars, records, prev>>

----------------------------------------------------------------------------
(* extract_and_load_repo and run_extract_load *)

\* load_with_dlt called with the pages accumulated so far, before the loop
\* of lines 131-137 has ended
CallLoad_Early(p) ==
    /\ pc[p] \in {"fetch", "fetched"}
    /\ BeginLoad(p, repo[p], stargazers[p])
    /\ UNCHANGED <<store, mode, idx, wait, clock, prev>>

\* Lines 193-194: get_stargazers has returned; load_with_dlt is called with
\* what it returned.
CallLoad(p) ==
    /\ pc[p] = "fetched"
    /\ BeginLoad(p, repo[p], stargazers[p])
    /\ UNCHANGED <<store, mode, idx, wait, clock, prev>>

\* Lines 197-201: run_extract_load starts with the first entry of REPOS.
RunStart(p) ==
    /\ pc[p] = "idle"
    /\ mode' = [mode EXCEPT ![p] = "run"]
    /\ idx' = [idx EXCEPT ![p] = 1]
    /\ \E pages \in 0..MaxDataPages : BeginFetch(p, REPOS[1], pages)
    /\ UNCHANGED <<store, wait, clock, err, prev>>

\* the for loop taking the next entry while pipeline.run is still to finish
RunNext_Early(p) ==
    /\ pc[p] \in {"load_run", "loaded"}
    /\ mode[p] = "run"
    /\ idx[p] < Len(REPOS)
    /\ idx' = [idx EXCEPT ![p] = @ + 1]
    /\ \E pages \in 0..MaxDataPages : BeginFetch(p, REPOS[idx[p] + 1], pages)
    /\ UNCHANGED <<store, mode, wait, clock, err, prev>>

\* Lines 200-201: load_with_dlt and extract_and_load_repo have returned and
\* the for loop takes the next entry of REPOS.
RunNext(p) ==
    /\ pc[p] = "loaded"
    /\ mode[p] = "run"
    /\ idx[p] < Len(REPOS)
    /\ idx' = [idx EXCEPT ![p] = @ + 1]
    /\ \E pages \in 0..MaxDataPages : BeginFetch(p, REPOS[idx[p] + 1], pages)
    /\ UNCHANGED <<store, mode, wait, clock, err, prev>>

\* Line 202: the for loop is exhausted and run_extract_load returns.
RunEnd(p) ==
    /\ pc[p] = "loaded"
    /\ mode[p] = "run"
    /\ idx[p] = Len(REPOS)
    /\ pc' = [pc EXCEPT ![p] = "done"]
    /\ UNCHANGED <<store, mode, idx, repo, fetchVars, loadVars, wait, err>>

----------------------------------------------------------------------------
(* load_with_dlt called on its own *)

\* The records a caller may pass for source r
RecordInputs(r) ==
    { ToRecords([i \in 1..(k * PageLen) |-> Item(r, i)], r) : k \in 0..MaxDataPages }

\* Lines 142-160: a caller invokes load_with_dlt(recs, r); once a call has
\* ended (returned or raised), the source is loaded again.
LoadCall(p) ==
    /\ pc[p] \in {"idle", "loaded", "failed"}
    /\ mode[p] \in {"none", "load"}
    /\ \E r \in RepoSet : \E recs \in RecordInputs(r) :
         /\ pc[p] # "idle" => r = repo[p]
         /\ BeginLoad(p, r, recs)
    /\ mode' = [mode EXCEPT ![p] = "load"]
    /\ prev' = [prev EXCEPT ![p] =
                  IF pc[p] = "loaded"
                  THEN [repo |-> repo[p], records |-> records[p],
                        rows |-> store[REPO_TABLE_MAP(repo[p])]]
                  ELSE NoPrev]
    /\ UNCHANGED <<store, idx, wait, clock>>

----------------------------------------------------------------------------

Next ==
    \E p \in Main :
        \/ RunStart(p)
        \/ FetchPageRateLimited(p)
        \/ FetchPageWake(p)
        \/ FetchPageCapped(p)
        \/ FetchPageError(p)
        \/ FetchPageOk(p)
        \/ Probe(p)
        \/ CallLoad(p)
        \/ LoadDropOk(p)
        \/ LoadDropRaise(p)
        \/ LoadRunOk(p)
        \/ LoadRunRaise(p)
        \/ LoadWake(p)
        \/ RunNext(p)
        \/ RunEnd(p)

Spec == Init /\ [][Next]_vars

NextLoad ==
    \E p \in Main :
        \/ LoadCall(p)
        \/ LoadDropOk(p)
        \/ LoadDropRaise(p)
        \/ LoadRunOk(p)
        \/ LoadRunRaise(p)
        \/ LoadWake(p)

SpecLoad == Init /\ [][NextLoad]_vars

----------------------------------------------------------------------------
(* get_stargazers called on its own *)

\* Lines 114-118: a caller invokes get_stargazers(r).  The source holds a few
\* pages, or one page more than the page cap allows to fetch.
FetchCall(p) ==
    /\ pc[p] = "idle"
    /\ mode' = [mode EXCEPT ![p] = "fetch"]
    /\ \E r \in RepoSet, pages \in (0..MaxDataPages) \cup {MAX_PAGES + 1} :
         BeginFetch(p, r, pages)
    /\ UNCHANGED <<store, idx, wait, clock, err, prev>>

NextFetch ==
    \E p \in Main :
        \/ FetchCall(p)
        \/ FetchPageRateLimited(p)
        \/ FetchPageWake(p)
        \/ FetchPageCapped(p)
        \/ FetchPageError(p)
        \/ FetchPageOk(p)
        \/ Probe(p)

SpecFetch == Init /\ [][NextFetch]_vars

----------------------------------------------------------------------------
(* Two single-source invocations side by side *)

\* The sources the scheduler starts a process for: each task gets one of the
\* first two entries of REPOS, the same one or different ones.
TaskSources == {REPOS[1], REPOS[2]}

\* Lines 205-209, 189-194: `python github_extract_load.py r` in a process of
\* its own.  get_stargazers touches nothing the processes share; the
\* invocation is taken up where it has returned recs and load_with_dlt is
\* called (line 194).
TaskCall(p) ==
    /\ pc[p] = "idle"
    /\ mode' = [mode EXCEPT ![p] = "single"]
    /\ \E r \in TaskSources : \E recs \in RecordInputs(r) : BeginLoad(p, r, recs)
    /\ UNCHANGED <<store, idx, wait, clock, prev>>

\* Each connection to the DuckDB file (lines 164-166, and the one dlt opens in
\* pipeline.run) is exclusive, so the drop and the insert of the two processes
\* interleave as whole steps; a connection refused for the lock is LoadDropRaise
\* or LoadRunRaise.
NextPair ==
    \E p \in Tasks :
        \/ TaskCall(p)
        \/ LoadDropOk(p)
        \/ LoadDropRaise(p)
        \/ LoadRunOk(p)
        \/ LoadRunRaise(p)
        \/ (attempt[p] < MaxContention /\ LoadWake(p))

SpecPair == Init /\ [][NextPair]_vars

----------------------------------------------------------------------------
(* One single-source invocation, run to its end *)

\* Lines 205-209, 189-192: `python github_extract_load.py r`;
\* extract_and_load_repo(r) calls get_stargazers(r).
SingleStart(p) ==
    /\ pc[p] = "idle"
    /\ mode' = [mode EXCEPT ![p] = "single"]
    /\ \E r \in RepoSet, pages \in 0..MaxDataPages : BeginFetch(p, r, pages)
    /\ UNCHANGED <<store, idx, wait, clock, err, prev>>

\* A step of the invocation
Step(p) ==
    \/ SingleStart(p)
    \/ FetchPageRateLimited(p)
    \/ FetchPageWake(p)
    \/ FetchPageCapped(p)
    \/ FetchPageError(p)
    \/ FetchPageOk(p)
    \/ Probe(p)
    \/ CallLoad(p)
    \/ LoadDropOk(p)
    \/ LoadDropRaise(p)
    \/ LoadRunOk(p)
    \/ LoadRunRaise(p)
    \/ LoadWake(p)

\* The request of line 81 is answered with a status that is not a rate limit
Answered(p) == FetchPageCapped(p) \/ FetchPageError(p) \/ FetchPageOk(p)

NextSingle == \E p \in Main : Step(p)

\* The interpreter keeps executing (every sleep ends, every call returns or
\* raises), and the API does not answer a page's requests with rate-limit
\* statuses for ever.
FairSingle ==
    /\ Init /\ [][NextSingle]_vars
    /\ \A p \in Main : WF_vars(Step(p)) /\ SF_vars(Answered(p))

----------------------------------------------------------------------------
(* Properties *)

TableOf(p) == REPO_TABLE_MAP(repo[p])

\* How often row occurs in rows
Count(rows, row) == Cardinality({i \in 1..Len(rows) : rows[i] = row})

\* rows holds exactly the records recs, each exactly once
HoldsExactly(rows, recs) ==
    /\ \A i \in 1..Len(recs) : Count(rows, recs[i]) = 1
    /\ \A i \in 1..Len(rows) : Count(recs, rows[i]) >= 1

\* C1: whenever load_with_dlt(records, repo) returns without raising, the table
\* of that repo holds exactly the given records, each exactly once, and no row
\* that was stored for the repo before the call -- whatever the table held
\* before and however many earlier attempts of the call hit a lock error.
C1_LoadedExactly ==
    \A p \in Procs :
        pc[p] = "loaded" => HoldsExactly(store[TableOf(p)], records[p])

\* C1 witness: a call that met stale rows, failed with a lock error on
\* attempts 1 and 2 and returned from attempt 3 with two or more records.
C1_Witness ==
    \E p \in Procs :
        /\ mode[p] = "load" /\ pc[p] = "loaded"
        /\ attempt[p] = 2
        /\ Len(records[p]) >= 2

\* C2: in a run over REPOS a fatal failure of one source's fetch or load does
\* not abort the run: when the run has ended, every configured source has had
\* its fetch and load attempted.
C2_FailureIsolated ==
    \A p \in Procs :
        (mode[p] = "run" /\ pc[p] \in {"done", "failed"}) => idx[p] = Len(REPOS)

\* The records of the first n pages of the source p is fetching, as the
\* upstream lists them
Listing(p, n) ==
    ToRecords([i \in 1..(n * PageLen) |-> Item(repo[p], i)], repo[p])

\* C3: rate limiting never drops data and never fails a fetch: a fetch whose
\* only non-200 responses were rate-limit responses (to page 1, the probe or a
\* later page) returns the records a fetch without them returns, and does not
\* raise.
C3_RateLimitHarmless ==
    \A p \in Procs :
        /\ (pc[p] = "fetched" /\ seen[p] \subseteq {"ratelimit"})
              => stargazers[p] = Listing(p, upstream[p])
        /\ (pc[p] = "failed" /\ err[p] = "http") => "error" \in seen[p]

\* C4: an unsuccessful response other than 403, 429 and 422 to any request of
\* a source's fetch is propagated: the run of that source fails, before load
\* is invoked and without another request.
C4_ErrorPropagates ==
    \A p \in Procs :
        "error" \in seen[p] => (pc[p] = "failed" /\ err[p] = "http")

\* The page results of p's fetch, concatenated in ascending page number 1..n
RECURSIVE ByPage(_, _)
ByPage(p, n) ==
    IF n = 0 THEN <<>>
    ELSE ByPage(p, n - 1)
           \o got[p][CHOOSE i \in 1..Len(got[p]) : got[p][i].page = n].recs

\* C5: the record sequence a fetch returns is the concatenation of the page
\* results in ascending page number starting with page 1, whatever the order
\* in which the page requests completed.
C5_PageAscending ==
    \A p \in Procs :
        pc[p] = "fetched" =>
            /\ {got[p][i].page : i \in 1..Len(got[p])} = 1..Len(got[p])
            /\ stargazers[p] = ByPage(p, Len(got[p]))

\* C5 witness: a fetch of two non-empty pages that was rate limited on the way.
C5_Witness ==
    \E p \in Procs :
        /\ pc[p] = "fetched"
        /\ Len(got[p]) = 2
        /\ got[p][1].recs # <<>> /\ got[p][2].recs # <<>>
        /\ "ratelimit" \in seen[p]

\* C6: every step of load_with_dlt(records, A), on the way to success, in a
\* retried attempt or into terminal failure, leaves the rows stored for every
\* other source B unchanged.
C6_OtherSourcesUntouched ==
    [][ \A p \in Procs : \A B \in RepoSet :
          (pc[p] \in {"load_drop", "load_run", "load_sleep"} /\ B # repo[p])
              => store'[REPO_TABLE_MAP(B)] = store[REPO_TABLE_MAP(B)] ]_vars

\* C6 witness: a call that ended in terminal failure after a retry, with its
\* own table changed and the rows of every other source as they were.
C6_Witness ==
    \E p \in Procs :
        /\ mode[p] = "load" /\ pc[p] = "failed"
        /\ attempt[p] >= 1
        /\ store[TableOf(p)] # StaleRows(repo[p])
        /\ \A B \in RepoSet \ {repo[p]} : store[REPO_TABLE_MAP(B)] = StaleRows(B)

\* C7: loading the same records for the same source twice in succession is
\* idempotent: after the second successful load the rows and the row count of
\* the source equal those after the first, and no record is stored twice.
C7_Idempotent ==
    \A p \in Procs :
        (pc[p] = "loaded" /\ prev[p].repo = repo[p] /\ prev[p].records = records[p])
            => /\ store[TableOf(p)] = prev[p].rows
               /\ Len(store[TableOf(p)]) = Len(prev[p].rows)
               /\ \A i \in 1..Len(records[p]) : Count(store[TableOf(p)], records[p][i]) = 1

\* C7 witness: two successive successful loads of the same non-empty records.
C7_Witness ==
    \E p \in Procs :
        /\ pc[p] = "loaded"
        /\ prev[p].repo = repo[p] /\ prev[p].records = records[p]
        /\ records[p] # <<>>

\* C8: if the page-1 fetch of a source returns zero records, no further page
\* and no probe is requested and the fetch returns the empty sequence; load is
\* then called with it, and when it returns the source has zero rows stored,
\* whatever was stored for it before.
C8_ZeroDataShortCircuit ==
    /\ [](\A p \in Procs :
            /\ first_records[p] = <<>> =>
                  /\ pc[p] = "fetched" /\ stargazers[p] = <<>>
                  /\ asked[p].top = 1 /\ ~asked[p].probe
            /\ (mode[p] = "run" /\ pc[p] = "loaded" /\ records[p] = <<>>)
                  => store[TableOf(p)] = <<>>)
    /\ [][ \A p \in Procs :
             pc[p] = "fetched" =>
                 /\ pc'[p] = "load_drop"
                 /\ records'[p] = stargazers[p] /\ repo'[p] = repo[p]
                 /\ store' = store ]_vars

\* C8 witness: in a run, a load of zero records has returned and the table
\* that held stale rows is empty.
C8_Witness ==
    \E p \in Procs :
        /\ mode[p] = "run" /\ pc[p] = "loaded"
        /\ records[p] = <<>>
        /\ store[TableOf(p)] = <<>>

C10_RateLimitSleep ==
    /\ [](\A p \in Procs :
            pc[p] = "fetch_sleep" =>
                /\ wait[p] = (IF clock[p].reset > clock[p].now
                              THEN clock[p].reset - clock[p].now ELSE 0) + 5
                /\ wait[p] >= 5
                /\ clock[p].reset = clock[p].now + 30 => wait[p] >= 35)
    /\ [][ \A p \in Procs :
             /\ (pc[p] = "fetch" /\ pc'[p] = "fetch_sleep") => page'[p] = page[p]
             /\ pc[p] = "fetch_sleep" =>
                   /\ pc'[p] = "fetch"
                   /\ page'[p] = page[p] /\ repo'[p] = repo[p] ]_vars

\* C10 witness: the request for page 2 was rate limited with the reset header
\* at now + 30 and the process sleeps 35 seconds.
C10_Witness ==
    \E p \in Procs :
        /\ pc[p] = "fetch_sleep" /\ page[p] = 2
        /\ clock[p].reset = clock[p].now + 30
        /\ wait[p] = 35

----------------------------------------------------------------------------

\* C11: once the probe has been answered, the discovered last page is the
\* smaller of the last page the response names and 400: a named value above
\* 400 gives exactly 400, and no page above 400 is ever requested.
C11_LastPageCapped ==
    \A p \in Procs :
        /\ (asked[p].probe /\ asked[p].last > 0) =>
               last_page[p] = (IF asked[p].last <= 400 THEN asked[p].last ELSE 400)
        /\ asked[p].last > 400 => last_page[p] = 400
        /\ asked[p].top <= 400
        /\ page[p] <= 400

\* A source of 401 pages has been fetched up to page 400 and no further.
C11_Witness ==
    \E p \in Procs :
        /\ pc[p] = "fetched"
        /\ asked[p].last = 401
        /\ asked[p].top = 400
        /\ Len(stargazers[p]) = 400 * PageLen
        /\ got[p][Len(got[p])] = [page |-> 400, recs |-> ToRecords(PageItems(repo[p], 400, 401), repo[p])]

\* C12: a 422 answer to the request for page c is a benign end of data:
\* _fetch_page returns the empty result for c at once (no sleep, no second
\* request, no exception), the fetch returns the records of pages 1..c-1, and
\* load_with_dlt is called next with exactly those records.
C12_HardCapBenign ==
    /\ [](\A p \in Procs :
            asked[p].cap > 0 =>
                /\ pc[p] = "fetched" /\ err[p] = NoErr /\ wait[p] = 0
                /\ asked[p].top = asked[p].cap
                /\ Len(got[p]) = asked[p].cap
                /\ got[p][Len(got[p])] = [page |-> asked[p].cap, recs |-> <<>>]
                /\ stargazers[p] = Listing(p, asked[p].cap - 1))
    /\ [][ \A p \in Procs :
             asked[p].cap > 0 =>
                 /\ pc'[p] = "load_drop"
                 /\ records'[p] = Listing(p, asked[p].cap - 1)
                 /\ repo'[p] = repo[p] ]_vars

\* C12 witness: page 2 was answered 422 and the fetch has returned the
\* records of page 1.
C12_Witness ==
    \E p \in Procs :
        /\ asked[p].cap = 2
        /\ pc[p] = "fetched"
        /\ stargazers[p] = Listing(p, 1)
        /\ stargazers[p] # <<>>

\* Positions inside a load_with_dlt call
LoadPcs == {"load_drop", "load_run", "load_sleep"}

\* C13: in one run over REPOS the loads never overlap: the load in progress
\* is that of the current list entry, it is left only by returning or raising,
\* and the loop moves to the next entry only after the load has returned, so
\* at most one load is in progress at any moment.
C13_LoadsSequential ==
    /\ [](/\ \A p \in Procs :
               (mode[p] = "run" /\ pc[p] \in LoadPcs) => repo[p] = REPOS[idx[p]]
          /\ Cardinality({p \in Procs : mode[p] = "run" /\ pc[p] \in LoadPcs}) <= 1)
    /\ [][ \A p \in Procs :
             /\ idx'[p] # idx[p] =>
                    /\ pc[p] \in {"idle", "loaded"}
                    /\ idx'[p] = idx[p] + 1
                    /\ pc'[p] = "fetch"
             /\ (mode[p] = "run" /\ repo'[p] # repo[p]) => idx'[p] # idx[p]
             /\ (mode[p] = "run" /\ pc[p] \in LoadPcs) =>
                    /\ pc'[p] \in LoadPcs \cup {"loaded", "failed"}
                    /\ repo'[p] = repo[p] /\ idx'[p] = idx[p] ]_vars

\* C13 witness: the load of the second source is in progress and the first
\* source's table holds what its load wrote.
C13_Witness ==
    \E p \in Procs :
        /\ mode[p] = "run" /\ idx[p] = 2 /\ pc[p] = "load_run"
        /\ Len(store[REPO_TABLE_MAP(REPOS[1])]) = PageLen
        /\ store[REPO_TABLE_MAP(REPOS[1])][1].user_id = 1

\* C14: two single-source invocations for distinct sources, side by side in
\* two processes on the one DuckDB file, do not interfere: whatever the
\* interleaving of their drops, inserts and lock retries, once both have
\* returned each source's table holds exactly the records its own invocation
\* loaded, and no step of one invocation changes the rows of a table other
\* than its own.
C14_DistinctSourcesIsolated ==
    /\ [](\A p, q \in Tasks :
            (p # q /\ pc[p] = "loaded" /\ pc[q] = "loaded" /\ repo[p] # repo[q]) =>
                /\ HoldsExactly(store[TableOf(p)], records[p])
                /\ HoldsExactly(store[TableOf(q)], records[q]))
    /\ [][ \A p \in Tasks :
             pc'[p] # pc[p] =>
                 \A t \in Tables \ {REPO_TABLE_MAP(repo'[p])} : store'[t] = store[t] ]_vars

\* C14 witness: both invocations have returned, one of them after a lock
\* retry, and the two tables hold two different non-empty loads.
C14_Witness ==
    \E p, q \in Tasks :
        /\ p # q /\ pc[p] = "loaded" /\ pc[q] = "loaded"
        /\ repo[p] # repo[q]
        /\ attempt[p] > 0
        /\ Len(records[p]) = PageLen /\ Len(records[q]) = 2 * PageLen
        /\ Len(store[TableOf(p)]) = PageLen /\ Len(store[TableOf(q)]) = 2 * PageLen

\* Positions inside a get_stargazers call, and after it has returned
FetchPcs == {"fetch", "fetch_sleep", "probe", "fetched"}

\* C15: a source's fetch results are never partially loaded: load_with_dlt is
\* called only once get_stargazers has returned, and with all the records of
\* all the pages it fetched; no step of the fetch writes to the store, and if
\* the fetch raises at any request the rows of that source and of every other
\* source are as they were.
C15_NeverPartiallyLoaded ==
    /\ [](\A p \in Procs :
            (mode[p] = "run" /\ (pc[p] \in FetchPcs \/ (pc[p] = "failed" /\ err[p] = HttpErr))) =>
                \A j \in idx[p]..Len(REPOS) :
                    store[REPO_TABLE_MAP(REPOS[j])] = StaleRows(REPOS[j]))
    /\ [][ \A p \in Procs :
             /\ (pc[p] \in FetchPcs /\ pc'[p] \in FetchPcs \cup {"failed"}) => store' = store
             /\ (pc[p] \notin LoadPcs /\ pc'[p] = "load_drop") =>
                    /\ pc[p] = "fetched"
                    /\ store' = store
                    /\ records'[p] = ByPage(p, Len(got[p])) ]_vars

\* C15 witness: the fetch of the second source has raised at its page-2
\* request, after page 1 had returned records; its table still holds the
\* rows it held before and the first source's table its load.
C15_Witness ==
    \E p \in Procs :
        /\ mode[p] = "run" /\ idx[p] = 2
        /\ pc[p] = "failed" /\ err[p] = HttpErr
        /\ asked[p].top = 2 /\ Len(first_records[p]) = PageLen
        /\ store[TableOf(p)] = StaleRows(repo[p])
        /\ HoldsExactly(store[REPO_TABLE_MAP(REPOS[1])],
                        ToRecords([i \in 1..PageLen |-> Item(REPOS[1], i)], REPOS[1]))

\* C16: when page 1 returned records and the probe response names no last
\* page, the discovered last page is 1: page 1 is the only page requested and
\* the fetch returns exactly the page-1 records.
C16_NoLastLinkOnePage ==
    \A p \in Procs :
        (asked[p].probe /\ asked[p].last = 0) =>
            /\ last_page[p] = 1
            /\ asked[p].top = 1 /\ page[p] = 1
            /\ pc[p] = "fetched"
            /\ first_records[p] # <<>>
            /\ got[p] = << [page |-> 1, recs |-> first_records[p]] >>
            /\ stargazers[p] = first_records[p]

\* C16 witness: a source of one page, answered 200 throughout, has been
\* fetched: the probe named no last page and the page-1 records are returned.
C16_Witness ==
    \E p \in Procs :
        /\ upstream[p] = 1 /\ seen[p] = {}
        /\ asked[p].probe /\ asked[p].last = 0
        /\ pc[p] = "fetched"
        /\ stargazers[p] = Listing(p, 1) /\ Len(stargazers[p]) = PageLen

\* C17: extract-and-load of one source ends, loaded or failed, provided no
\* page is answered with rate-limit statuses for ever; the rate-limit loop
\* itself has no ceiling (whatever came before, a request answered with a
\* rate limit is slept on and sent again), while a load, once called, ends
\* within its 12 attempts.
C17_Terminates ==
    /\ \A p \in Procs : pc[p] \in FetchPcs ~> pc[p] \in {"loaded", "failed"}
    /\ \A p \in Procs : pc[p] \in LoadPcs ~> pc[p] \in {"loaded", "failed"}
    /\ [](\A p \in Procs :
            /\ attempt[p] < 12
            /\ pc[p] = "fetch" => ENABLED FetchPageRateLimited(p)
            /\ pc[p] = "fetch_sleep" => ENABLED FetchPageWake(p))

\* C17 witness: an invocation has ended with its load returning at the 12th
\* attempt.
C17_Witness ==
    \E p \in Procs :
        /\ mode[p] = "single" /\ pc[p] = "loaded"
        /\ attempt[p] = 11
        /\ Len(records[p]) = MaxDataPages * PageLen

\* C18: a load call that ends in terminal failure (a non-lock error on any
\* attempt, or a lock error on the 12th) leaves the rows the source's previous
\* successful load stored unchanged: the prior snapshot is still readable.
C18_FailureKeepsSnapshot ==
    \A p \in Procs :
        (pc[p] = "failed" /\ mode[p] = "load" /\ prev[p].repo = repo[p]) =>
            store[TableOf(p)] = prev[p].rows

\* C18 as the code has it: after a terminal failure the source's table holds
\* either the rows of the previous successful load, unchanged, or no row of
\* them any more and only records of the failed call (none, some or all of
\* them, none twice).
C18_FailureKeepsOrReplaces ==
    \A p \in Procs :
        (pc[p] = "failed" /\ mode[p] = "load" /\ prev[p].repo = repo[p]) =>
            \/ store[TableOf(p)] = prev[p].rows
            \/ \A i \in 1..Len(store[TableOf(p)]) :
                  /\ Count(records[p], store[TableOf(p)][i]) >= 1
                  /\ Count(store[TableOf(p)], store[TableOf(p)][i]) = 1

\* C18 witness: a load that followed a successful load of two pages has
\* failed for good after its drop: the table is empty.
C18_Witness ==
    \E p \in Procs :
        /\ pc[p] = "failed" /\ mode[p] = "load" /\ prev[p].repo = repo[p]
        /\ Len(prev[p].rows) = 2 * PageLen
        /\ Len(records[p]) = PageLen
        /\ store[TableOf(p)] = <<>>

\* C19: when two load calls for the same source run side by side in two
\* processes, then whatever the interleaving of their drops and inserts, once
\* both have returned the source's table holds exactly the records of one of
\* the two calls, each stored once.
C19_SameSourceOneSnapshot ==
    \A p, q \in Tasks :
        (p # q /\ repo[p] = repo[q] /\ pc[p] = "loaded" /\ pc[q] = "loaded") =>
            \/ HoldsExactly(store[TableOf(p)], records[p])
            \/ HoldsExactly(store[TableOf(p)], records[q])

====
